---------------------------- MODULE Spec2Model ----------------------------
(* `wasm-tools strip` (src/bin/wasm-tools/strip.rs): Opts::run as a state   *)
(* machine over byte sequences.  The section walker (wasmparser's           *)
(* Parser::parse_all) and the encoder (wasm_encoder's Module / RawSection)  *)
(* live in other crates of the repository; they are modelled at the byte    *)
(* level: LEB128 lengths, section ids, the 8-byte preamble.                 *)
(* Offsets are 0-based and ranges half-open, as in Rust.                    *)
EXTENDS Integers, Sequences, FiniteSets, TLC

VARIABLES opts, file, input, to_delete, module, walker, payloads, events,
          pc, err, sink, run, first

vars == <<opts, file, input, to_delete, module, walker, payloads, events,
          pc, err, sink, run, first>>

(***************************************************************************)
(* Bytes                                                                   *)
(***************************************************************************)

\* &bytes[lo..hi]
Slice(bytes, lo, hi) == SubSeq(bytes, lo + 1, hi)

\* Whether &bytes[lo..hi] is in bounds (Rust panics otherwise).
InBounds(bytes, lo, hi) == lo <= hi /\ hi <= Len(bytes)

Pow2(n) == 2 ^ n

\* BinaryReader::read_var_u32 at offset pos of bytes, not reading past `end`:
\* [ok, val, pos].  At most 5 bytes; the fifth carries only 4 value bits.
RECURSIVE ReadVarLoop(_, _, _, _, _)
ReadVarLoop(bytes, end, pos, shift, acc) ==
    IF pos >= end THEN [ok |-> FALSE, val |-> 0, pos |-> pos]
    ELSE LET byte == bytes[pos + 1]
             val  == acc + (byte % 128) * Pow2(shift)
         IN  IF shift >= 25 /\ (byte \div Pow2(32 - shift)) # 0
             THEN [ok |-> FALSE, val |-> 0, pos |-> pos]
             ELSE IF byte < 128
                  THEN [ok |-> TRUE, val |-> val, pos |-> pos + 1]
                  ELSE ReadVarLoop(bytes, end, pos + 1, shift + 7, val)

ReadVarU32(bytes, end, pos) == ReadVarLoop(bytes, end, pos, 0, 0)

\* leb128::write::unsigned, as usize::encode / u32::encode use it.
RECURSIVE EncodeU32(_)
EncodeU32(v) ==
    IF v \div 128 = 0 THEN <<v % 128>>
    ELSE <<(v % 128) + 128>> \o EncodeU32(v \div 128)

\* std::str::from_utf8, on the alphabet of the inputs below: ASCII bytes are
\* valid; the inputs hold no UTF-8 lead byte (0xC2..0xF4), so any byte >= 0x80
\* in a name is a stray continuation byte or 0xFF, which is invalid.
IsUtf8(bytes) == \A i \in 1..Len(bytes) : bytes[i] < 128

(***************************************************************************)
(* The preamble                                                            *)
(***************************************************************************)

WasmMagic == <<0, 97, 115, 109>>

ModuleVersion == <<1, 0, 0, 0>>

ComponentVersion == <<10, 0, 1, 0>>

ModuleHeader == WasmMagic \o ModuleVersion

ComponentHeader == WasmMagic \o ComponentVersion

(***************************************************************************)
(* Section kinds                                                           *)
(***************************************************************************)

\* The payloads strip.rs hands to its `section` closure.
StandardKinds ==
    {"Type", "Import", "Function", "Table", "Memory", "Tag", "Global",
     "Export", "Element", "Data", "Start", "DataCount", "Code"}

\* Seeded fault: the Tag and Global arms name each other's SectionId.
SectionId_TagGlobalSwapped(kind) ==
    CASE kind = "Custom"    -> 0
      [] kind = "Type"      -> 1
      [] kind = "Import"    -> 2
      [] kind = "Function"  -> 3
      [] kind = "Table"     -> 4
      [] kind = "Memory"    -> 5
      [] kind = "Global"    -> 13
      [] kind = "Export"    -> 7
      [] kind = "Start"     -> 8
      [] kind = "Element"   -> 9
      [] kind = "Code"      -> 10
      [] kind = "Data"      -> 11
      [] kind = "DataCount" -> 12
      [] kind = "Tag"       -> 6

\* The SectionId each arm of lines 71-83 passes for its payload, as u8.
SectionId(kind) ==
    CASE kind = "Custom"    -> 0
      [] kind = "Type"      -> 1
      [] kind = "Import"    -> 2
      [] kind = "Function"  -> 3
      [] kind = "Table"     -> 4
      [] kind = "Memory"    -> 5
      [] kind = "Global"    -> 6
      [] kind = "Export"    -> 7
      [] kind = "Start"     -> 8
      [] kind = "Element"   -> 9
      [] kind = "Code"      -> 10
      [] kind = "Data"      -> 11
      [] kind = "DataCount" -> 12
      [] kind = "Tag"       -> 13

\* The parser's section id -> payload kind, under the module encoding.
ModuleKindOfId(id) ==
    CASE id = 0  -> "Custom"
      [] id = 1  -> "Type"
      [] id = 2  -> "Import"
      [] id = 3  -> "Function"
      [] id = 4  -> "Table"
      [] id = 5  -> "Memory"
      [] id = 6  -> "Global"
      [] id = 7  -> "Export"
      [] id = 8  -> "Start"
      [] id = 9  -> "Element"
      [] id = 10 -> "Code"
      [] id = 11 -> "Data"
      [] id = 12 -> "DataCount"
      [] id = 13 -> "Tag"
      [] OTHER   -> "Unknown"

\* Sections whose reader's constructor reads an item count.
VecKinds ==
    {"Type", "Import", "Function", "Table", "Memory", "Tag", "Global",
     "Export", "Element", "Data"}

\* Largest section id the component encoding assigns (module, instance,
\* core type, component, instance, alias, type, canonical, start, import,
\* export): the payloads of strip.rs's `unimplemented!` arm.
MaxComponentSectionId == 11

KindOfId(encoding, id) ==
    IF id = 0 THEN "Custom"
    ELSE IF encoding = "Module" THEN ModuleKindOfId(id)
    ELSE IF id <= MaxComponentSectionId THEN "ComponentModel"
    ELSE "Unknown"

MaxWasmStringSize == 100000

(***************************************************************************)
(* The walker: Parser::new(0).parse_all(&input)                            *)
(***************************************************************************)

NewParser == [state |-> "Header", pos |-> 0, encoding |-> "Module",
              remaining |-> 0, len |-> 0]

NoPayload == [kind |-> "None", id |-> 0, lo |-> 0, hi |-> 0, name |-> <<>>,
              data_offset |-> 0]

ParseErr(w) == [ok |-> FALSE, payload |-> NoPayload,
                walker |-> [w EXCEPT !.state = "Failed"]]

Yield(w, kind, id, lo, hi, name) ==
    [ok |-> TRUE,
     payload |-> [kind |-> kind, id |-> id, lo |-> lo, hi |-> hi, name |-> name,
                  data_offset |-> lo],
     walker |-> w]

\* A custom section's payload also carries where its data starts, after the
\* name (CustomSectionReader::data_offset).
YieldCustom(w, lo, hi, name, data_offset) ==
    [ok |-> TRUE,
     payload |-> [kind |-> "Custom", id |-> 0, lo |-> lo, hi |-> hi,
                  name |-> name, data_offset |-> data_offset],
     walker |-> w]

\* State::Header: the magic, then the version selects the encoding.
ParseHeader(bytes, w) ==
    IF Len(bytes) < 8 \/ Slice(bytes, 0, 4) # WasmMagic THEN ParseErr(w)
    ELSE LET version == Slice(bytes, 4, 8)
             next(e) == [w EXCEPT !.state = "SectionStart", !.pos = 8,
                                  !.encoding = e]
         IN  IF version = ModuleVersion
             THEN Yield(next("Module"), "Version", 0, 0, 8, <<>>)
             ELSE IF version = ComponentVersion
             THEN Yield(next("Component"), "Version", 0, 0, 8, <<>>)
             ELSE ParseErr(w)

\* CustomSectionReader::new over the section's content lo..hi: the name is a
\* length-prefixed UTF-8 string; range() is the whole content.
ParseCustom(bytes, w, lo, hi) ==
    LET n == ReadVarU32(bytes, hi, lo)
    IN  IF ~n.ok \/ n.val > MaxWasmStringSize \/ n.pos + n.val > hi
        THEN ParseErr(w)
        ELSE LET name == Slice(bytes, n.pos, n.pos + n.val)
             IN  IF IsUtf8(name)
                 THEN YieldCustom([w EXCEPT !.pos = hi], lo, hi, name,
                                  n.pos + n.val)
                 ELSE ParseErr(w)

\* CODE_SECTION: the function count is read from the stream, the range is
\* content start .. content start + declared length, and the bodies follow as
\* separate payloads.  The range is not checked against the buffer here.
ParseCodeStart(bytes, w, lo, len) ==
    LET c == ReadVarU32(bytes, Len(bytes), lo)
    IN  IF ~c.ok \/ c.pos - lo > len THEN ParseErr(w)
        ELSE Yield([w EXCEPT !.state = "FunctionBody", !.pos = c.pos,
                             !.remaining = c.val, !.len = len - (c.pos - lo)],
                   "Code", 10, lo, lo + len, <<>>)

\* State::SectionStart
ParseSection(bytes, w) ==
    IF w.pos = Len(bytes)
    THEN Yield([w EXCEPT !.state = "End"], "End", 0, w.pos, w.pos, <<>>)
    ELSE LET id == bytes[w.pos + 1]
             l  == ReadVarU32(bytes, Len(bytes), w.pos + 1)
         IN  IF id >= 128 \/ ~l.ok THEN ParseErr(w)
             ELSE LET lo   == l.pos
                      hi   == l.pos + l.val
                      kind == KindOfId(w.encoding, id)
                      done == [w EXCEPT !.pos = hi]
                  IN  IF kind = "Code" THEN ParseCodeStart(bytes, w, lo, l.val)
                      ELSE IF hi > Len(bytes) THEN ParseErr(w)
                      ELSE IF kind = "Custom" THEN ParseCustom(bytes, w, lo, hi)
                      ELSE IF kind \in VecKinds
                      THEN IF ReadVarU32(bytes, hi, lo).ok
                           THEN Yield(done, kind, id, lo, hi, <<>>)
                           ELSE ParseErr(w)
                      ELSE IF kind \in {"Start", "DataCount"}
                      THEN LET i == ReadVarU32(bytes, hi, lo)
                           IN  IF i.ok /\ i.pos = hi
                               THEN Yield(done, kind, id, lo, hi, <<>>)
                               ELSE ParseErr(w)
                      ELSE Yield(done, kind, id, lo, hi, <<>>)

\* State::FunctionBody { remaining, len }, remaining > 0: one size-prefixed
\* body, which must fit in what is left of the section.
ParseFunctionBody(bytes, w) ==
    LET s == ReadVarU32(bytes, Len(bytes), w.pos)
    IN  IF ~s.ok \/ s.pos + s.val > Len(bytes) \/ (s.pos + s.val) - w.pos > w.len
        THEN ParseErr(w)
        ELSE Yield([w EXCEPT !.pos = s.pos + s.val,
                             !.remaining = w.remaining - 1,
                             !.len = w.len - ((s.pos + s.val) - w.pos)],
                   "CodeEntry", 10, s.pos, s.pos + s.val, <<>>)

\* One item of the parse_all iterator.
ParseNext(bytes, w) ==
    CASE w.state = "Header" -> ParseHeader(bytes, w)
      [] w.state = "SectionStart" -> ParseSection(bytes, w)
      [] w.state = "FunctionBody" /\ w.remaining = 0 /\ w.len = 0 ->
            ParseSection(bytes, [w EXCEPT !.state = "SectionStart"])
      [] w.state = "FunctionBody" /\ w.remaining = 0 /\ w.len # 0 -> ParseErr(w)
      [] w.state = "FunctionBody" /\ w.remaining # 0 -> ParseFunctionBody(bytes, w)

\* The iterator is exhausted after End or after an error.
Exhausted(w) == w.state \in {"End", "Failed"}

(***************************************************************************)
(* The encoder: wasm_encoder::Module                                       *)
(***************************************************************************)

\* Module::new(): the module preamble.
ModuleNew == ModuleHeader

\* Module::section(&RawSection { id, data }): the id, the byte length of data
\* as LEB128, then data.
ModuleSection(m, id, data) == m \o <<id>> \o EncodeU32(Len(data)) \o data

(***************************************************************************)
(* The name matcher: regex::RegexSet over byte-string patterns.  Patterns   *)
(* are literals with an optional leading ^ and trailing $; an unclosed      *)
(* group does not compile.  Matching is an unanchored search.               *)
(***************************************************************************)

Compiles(p) == \A i \in 1..Len(p) : p[i] # 40

PatternMatches(p, name) ==
    LET atStart == p # <<>> /\ p[1] = 94
        atEnd   == p # <<>> /\ p[Len(p)] = 36
        lit     == SubSeq(p, IF atStart THEN 2 ELSE 1,
                             IF atEnd THEN Len(p) - 1 ELSE Len(p))
    IN  \E s \in 0..(Len(name) - Len(lit)) :
            /\ Slice(name, s, s + Len(lit)) = lit
            /\ atStart => s = 0
            /\ atEnd => s + Len(lit) = Len(name)

\* RegexSet::is_match
IsMatch(set, name) == \E i \in 1..Len(set) : PatternMatches(set[i], name)

\* "name"
NameName == <<110, 97, 109, 101>>

(***************************************************************************)
(* strip.rs                                                                *)
(***************************************************************************)

\* Seeded fault: no default rule; an empty pattern set strips nothing.
strip_custom_section_NoDefault(all, set, name) ==
    IF all THEN TRUE ELSE IsMatch(set, name)

\* Seeded fault: the patterns are consulted before --all.
strip_custom_section_PatternsFirst(all, set, name) ==
    IF set # <<>> THEN IsMatch(set, name)
    ELSE IF all THEN TRUE
    ELSE name # NameName

\* Seeded fault: a name no pattern matches falls through to the default rule.
strip_custom_section_FallsThrough(all, set, name) ==
    IF all THEN TRUE
    ELSE IF set # <<>> /\ IsMatch(set, name) THEN TRUE
    ELSE name # NameName

\* The closure of lines 34-47: TRUE = strip the custom section.
strip_custom_section(all, set, name) ==
    IF all THEN TRUE
    ELSE IF set # <<>> THEN IsMatch(set, name)
    ELSE name # NameName

\* Seeded fault: the copied range starts at the section's id byte, so the input's
\* own id and length bytes are copied into the content.
section_WithFraming(m, bytes, kind, lo, hi) ==
    ModuleSection(m, SectionId(kind), Slice(bytes, lo - 2, hi))

\* The closure of lines 53-58: module.section(&RawSection { id, data:
\* &input[range] }).
section(m, bytes, kind, lo, hi) ==
    ModuleSection(m, SectionId(kind), Slice(bytes, lo, hi))

\* Seeded fault: only the data after the name is copied (c.data()).
CustomRange_DataOnly(p) == [lo |-> p.data_offset, hi |-> p.hi]

\* c.range() of line 102: what of a retained custom section is copied.
CustomRange(p) == [lo |-> p.lo, hi |-> p.hi]

(***************************************************************************)
(* Inputs                                                                  *)
(***************************************************************************)

\* Sections per generated input.
MaxSections == 2

\* custom "name", data <<1>>
CustomName == <<0, 6, 4, 110, 97, 109, 101, 1>>

\* custom "pr", data <<2, 3>>
CustomProducers == <<0, 5, 2, 112, 114, 2, 3>>

\* custom "names", no data, its length as the two-byte LEB128 0x86 0x00
CustomNames == <<0, 134, 0, 5, 110, 97, 109, 101, 115>>

\* type section, no types
TypeSec == <<1, 1, 0>>

\* function section, one function, its length as the two-byte LEB128
FunctionSec == <<3, 130, 0, 1, 0>>

\* code section, one body of two bytes
CodeSec == <<10, 4, 1, 2, 0, 11>>

\* start section
StartSec == <<8, 1, 0>>

\* a section id the parser does not know
UnknownSec == <<127, 1, 9>>

\* code section whose body claims 5 bytes of the 1 that remains
BadCodeBody == <<10, 3, 1, 5, 0>>

\* custom section whose name is not UTF-8
BadUtf8Custom == <<0, 2, 1, 255>>

\* code section cut short: 4 bytes declared, 1 present
ShortCode == <<10, 4, 0>>

Catalogue ==
    <<CustomName, CustomProducers, CustomNames, TypeSec, FunctionSec, CodeSec,
      StartSec, UnknownSec, BadCodeBody, BadUtf8Custom, ShortCode>>

RECURSIVE Flatten(_)
Flatten(frames) ==
    IF frames = <<>> THEN <<>> ELSE Head(frames) \o Flatten(Tail(frames))

SectionLists(max) == UNION { [1..n -> 1..Len(Catalogue)] : n \in 0..max }

Bodies(max) ==
    { Flatten([i \in 1..Len(f) |-> Catalogue[f[i]]]) : f \in SectionLists(max) }

\* custom "name" with 130 bytes of data: a content length that takes two
\* LEB128 bytes (135 = 0x87 0x01)
LongData == [i \in 1..130 |-> 0]

LongCustom == <<0, 135, 1, 4, 110, 97, 109, 101>> \o LongData

\* one section of every standard kind, customs around them
AllKinds ==
    CustomProducers \o <<1, 1, 0>> \o <<2, 1, 0>> \o <<3, 1, 0>> \o <<4, 1, 0>>
    \o <<5, 1, 0>> \o <<13, 1, 0>> \o <<6, 1, 0>> \o <<7, 1, 0>> \o <<8, 1, 0>>
    \o <<9, 1, 0>> \o <<12, 1, 0>> \o CodeSec \o <<11, 1, 0>> \o CustomName
    \o UnknownSec

ExtraBodies ==
    { CustomName \o CustomProducers \o FunctionSec,
      LongCustom \o CustomProducers \o FunctionSec,
      AllKinds }

BadMagic == <<0, 97, 115, 110>> \o ModuleVersion

BadVersion == WasmMagic \o <<2, 0, 0, 0>>

Inputs ==
    { ModuleHeader \o b : b \in Bodies(MaxSections) \cup ExtraBodies }
    \cup { h \o b : h \in {ComponentHeader, BadMagic, BadVersion},
                    b \in Bodies(1) }
    \cup { <<0, 97, 115>> }

\* --delete patterns: "name", "^p", "names$", "("
PatName == NameName

PatP == <<94, 112>>

PatNames == <<110, 97, 109, 101, 115, 36>>

PatBad == <<40>>

DeleteChoices == { <<>>, <<PatName>>, <<PatP, PatNames>>, <<PatP, PatBad>> }

(***************************************************************************)
(* Opts::run                                                               *)
(***************************************************************************)

\* The text rendering of the output (--wat) is outside the pass: wat is
\* carried to the sink and left FALSE.
Init ==
    /\ opts \in [all : BOOLEAN, delete : DeleteChoices, wat : {FALSE}]
    /\ file \in { [readable |-> TRUE, bytes |-> b] : b \in Inputs }
                \cup { [readable |-> FALSE, bytes |-> <<>>] }
    /\ input = <<>>
    /\ to_delete = <<>>
    /\ module = <<>>
    /\ walker = NewParser
    /\ payloads = <<>>
    /\ events = <<>>
    /\ pc = "start"
    /\ err = "none"
    /\ sink = <<>>
    /\ run = 1
    /\ first = [input |-> <<>>, output |-> <<>>]

Fail(e) == pc' = "error" /\ err' = e

Panic(e) == pc' = "panic" /\ err' = e

\* line 31: let input = self.io.parse_input_wasm()?;
ReadInput ==
    /\ pc = "start"
    /\ events' = Append(events, "input")
    /\ IF file.readable
       THEN input' = file.bytes /\ pc' = "regex" /\ err' = err
       ELSE input' = input /\ Fail("input")
    /\ UNCHANGED <<opts, file, to_delete, module, walker, payloads, sink, run,
                   first>>

\* Seeded fault: patterns that do not compile are left out instead of failing.
CompilePatterns_SkipsInvalid ==
    /\ pc = "regex"
    /\ events' = Append(events, "regex")
    /\ to_delete' = SelectSeq(opts.delete, Compiles)
    /\ module' = ModuleNew
    /\ walker' = NewParser
    /\ pc' = "loop"
    /\ UNCHANGED <<opts, file, input, payloads, sink, run, first, err>>

\* line 32: let to_delete = regex::RegexSet::new(self.delete.iter())?;
\* and, on success, line 49 (Module::new()) and line 51 (the parser).
CompilePatterns ==
    /\ pc = "regex"
    /\ events' = Append(events, "regex")
    /\ IF \A i \in 1..Len(opts.delete) : Compiles(opts.delete[i])
       THEN /\ to_delete' = opts.delete
            /\ module' = ModuleNew
            /\ walker' = NewParser
            /\ pc' = "loop"
            /\ err' = err
       ELSE /\ Fail("regex")
            /\ UNCHANGED <<to_delete, module, walker>>
    /\ UNCHANGED <<opts, file, input, payloads, sink, run, first>>

\* The next item of the iterator of line 51.
NextItem == ParseNext(input, walker)

InLoop == pc = "loop" /\ ~Exhausted(walker)

\* What every arm of the match leaves alone.
LoopFrame == UNCHANGED <<opts, file, input, to_delete, events, sink, run, first>>

Delivered(p) == walker' = NextItem.walker /\ payloads' = Append(payloads, p)

\* Seeded fault: a parse error ends the loop instead of the run.
LoopParseError_Break ==
    /\ InLoop
    /\ ~NextItem.ok
    /\ walker' = NextItem.walker
    /\ pc' = "output"
    /\ UNCHANGED <<module, payloads, err>>
    /\ LoopFrame

\* line 52: let payload = payload?;
LoopParseError ==
    /\ InLoop
    /\ ~NextItem.ok
    /\ walker' = NextItem.walker
    /\ Fail("parse")
    /\ UNCHANGED <<module, payloads>>
    /\ LoopFrame

\* Seeded fault: the component preamble is accepted like the module one.
OnVersion_NoBail ==
    /\ InLoop
    /\ NextItem.ok
    /\ NextItem.payload.kind = "Version"
    /\ Delivered(NextItem.payload)
    /\ UNCHANGED <<module, pc, err>>
    /\ LoopFrame

\* lines 60-69: the Version arms.
OnVersion ==
    /\ InLoop
    /\ NextItem.ok
    /\ NextItem.payload.kind = "Version"
    /\ Delivered(NextItem.payload)
    /\ IF NextItem.walker.encoding = "Module"
       THEN pc' = pc /\ err' = err
       ELSE Fail("component")
    /\ UNCHANGED module
    /\ LoopFrame

\* lines 71-83: the standard sections, through the `section` closure, whose
\* &input[range] panics on a range outside the buffer; and lines 86-96: the
\* component-model payloads, unimplemented!.
OnSection ==
    /\ InLoop
    /\ NextItem.ok
    /\ NextItem.payload.kind \in StandardKinds \cup {"ComponentModel"}
    /\ LET p == NextItem.payload
       IN  /\ Delivered(p)
           /\ IF p.kind = "ComponentModel"
              THEN Panic("unimplemented") /\ module' = module
              ELSE IF ~InBounds(input, p.lo, p.hi)
              THEN Panic("slice") /\ module' = module
              ELSE /\ module' = section(module, input, p.kind, p.lo, p.hi)
                   /\ pc' = pc
                   /\ err' = err
    /\ LoopFrame

\* Seeded fault: each code entry is appended as a section of its own.
OnCodeSectionEntry_Appends ==
    /\ InLoop
    /\ NextItem.ok
    /\ NextItem.payload.kind = "CodeEntry"
    /\ Delivered(NextItem.payload)
    /\ module' = section(module, input, "Code", NextItem.payload.lo,
                         NextItem.payload.hi)
    /\ UNCHANGED <<pc, err>>
    /\ LoopFrame

\* line 84: CodeSectionEntry(_) => {}
OnCodeSectionEntry ==
    /\ InLoop
    /\ NextItem.ok
    /\ NextItem.payload.kind = "CodeEntry"
    /\ Delivered(NextItem.payload)
    /\ UNCHANGED <<module, pc, err>>
    /\ LoopFrame

\* lines 98-105: a custom section is copied unless the policy strips it.
OnCustomSection ==
    /\ InLoop
    /\ NextItem.ok
    /\ NextItem.payload.kind = "Custom"
    /\ LET p == NextItem.payload
           r == CustomRange(p)
       IN  /\ Delivered(p)
           /\ IF ~strip_custom_section(opts.all, to_delete, p.name)
              THEN module' = ModuleSection(module, SectionId("Custom"),
                                           Slice(input, r.lo, r.hi))
              ELSE module' = module
    /\ UNCHANGED <<pc, err>>
    /\ LoopFrame

\* lines 107-113: UnknownSection { id, contents, .. }
OnUnknownSection ==
    /\ InLoop
    /\ NextItem.ok
    /\ NextItem.payload.kind = "Unknown"
    /\ LET p == NextItem.payload
       IN  /\ Delivered(p)
           /\ module' = ModuleSection(module, p.id, Slice(input, p.lo, p.hi))
    /\ UNCHANGED <<pc, err>>
    /\ LoopFrame

\* line 115: End(_) => {}, after which the iterator is exhausted and the loop
\* is left.
OnEnd ==
    /\ InLoop
    /\ NextItem.ok
    /\ NextItem.payload.kind = "End"
    /\ Delivered(NextItem.payload)
    /\ pc' = "output"
    /\ UNCHANGED <<module, err>>
    /\ LoopFrame

\* lines 119-123: self.io.output(Output::Wasm { bytes, wat })?; Ok(())
Output ==
    /\ pc = "output"
    /\ sink' = Append(sink, [bytes |-> module, wat |-> opts.wat, ok |-> TRUE])
    /\ pc' = "done"
    /\ UNCHANGED <<opts, file, input, to_delete, module, walker, payloads,
                   events, err, run, first>>

\* line 122: the sink itself fails.
OutputFails ==
    /\ pc = "output"
    /\ sink' = Append(sink, [bytes |-> <<>>, wat |-> opts.wat, ok |-> FALSE])
    /\ Fail("output")
    /\ UNCHANGED <<opts, file, input, to_delete, module, walker, payloads,
                   events, run, first>>

DefaultMode == ~opts.all /\ opts.delete = <<>>

\* The command run again, in default mode, on what it wrote.
RunAgain ==
    /\ pc = "done"
    /\ run = 1
    /\ DefaultMode
    /\ file' = [readable |-> TRUE, bytes |-> sink[1].bytes]
    /\ first' = [input |-> input, output |-> sink[1].bytes]
    /\ run' = 2
    /\ input' = <<>>
    /\ to_delete' = <<>>
    /\ module' = <<>>
    /\ walker' = NewParser
    /\ payloads' = <<>>
    /\ events' = <<>>
    /\ pc' = "start"
    /\ err' = "none"
    /\ sink' = <<>>
    /\ UNCHANGED opts

Next ==
    \/ ReadInput
    \/ CompilePatterns
    \/ LoopParseError
    \/ OnVersion
    \/ OnSection
    \/ OnCodeSectionEntry
    \/ OnCustomSection
    \/ OnUnknownSection
    \/ OnEnd
    \/ Output
    \/ OutputFails
    \/ RunAgain

Spec == Init /\ [][Next]_vars

(***************************************************************************)
(* Reading a module back: the frames after the 8-byte preamble, each an id, *)
(* a LEB128 length prefix and that many bytes.  A frame that cannot be read *)
(* is reported with id -1.                                                  *)
(***************************************************************************)

RECURSIVE FramesFrom(_, _)
FramesFrom(bytes, pos) ==
    IF pos >= Len(bytes) THEN <<>>
    ELSE LET l == ReadVarU32(bytes, Len(bytes), pos + 1)
         IN  IF ~l.ok \/ l.pos + l.val > Len(bytes)
             THEN <<[id |-> -1, prefix |-> <<>>, data |-> <<>>]>>
             ELSE <<[id |-> bytes[pos + 1],
                     prefix |-> Slice(bytes, pos + 1, l.pos),
                     data |-> Slice(bytes, l.pos, l.pos + l.val)]>>
                  \o FramesFrom(bytes, l.pos + l.val)

Frames(bytes) == FramesFrom(bytes, 8)

\* The name a custom section's content starts with.
FrameName(data) ==
    LET n == ReadVarU32(data, Len(data), 0)
    IN  IF n.ok /\ n.pos + n.val <= Len(data)
        THEN Slice(data, n.pos, n.pos + n.val)
        ELSE <<-1>>

\* Of a sequence of frames or of section records: the ids.
Ids(seq) == [i \in 1..Len(seq) |-> seq[i].id]

\* Of a sequence of frames: the contents, and the ids with the contents.
Datas(frames) == [i \in 1..Len(frames) |-> frames[i].data]

IdsAndDatas(frames) == [i \in 1..Len(frames) |-> <<frames[i].id, frames[i].data>>]

\* A frame as bytes.
FrameBytes(frames) ==
    [i \in 1..Len(frames) |-> <<frames[i].id>> \o frames[i].prefix \o frames[i].data]

IsCustomFrame(f) == f.id = 0

IsOtherFrame(f) == f.id # 0

\* The section records among the walker's payloads, and what each covers in
\* the input.
IsSectionRecord(p) == p.kind \in StandardKinds \cup {"Custom", "Unknown"}

IsCustomRecord(p) == p.kind = "Custom"

IsOtherRecord(p) == IsSectionRecord(p) /\ ~IsCustomRecord(p)

IsNameRecord(p) == IsCustomRecord(p) /\ p.name = NameName

IsUnmatchedRecord(p) ==
    /\ IsCustomRecord(p)
    /\ \A i \in 1..Len(opts.delete) : ~PatternMatches(opts.delete[i], p.name)

Content(p) == Slice(input, p.lo, p.hi)

Contents(ps) == [i \in 1..Len(ps) |-> Content(ps[i])]

IdsAndContents(ps) == [i \in 1..Len(ps) |-> <<ps[i].id, Content(ps[i])>>]

\* The three policy modes as the configuration states them.
PolicyDrops(name) ==
    \/ opts.all
    \/ ~opts.all /\ opts.delete # <<>>
          /\ \E i \in 1..Len(opts.delete) : PatternMatches(opts.delete[i], name)
    \/ ~opts.all /\ opts.delete = <<>> /\ name # NameName

IsRetained(p) ==
    IsSectionRecord(p) /\ ~(IsCustomRecord(p) /\ PolicyDrops(p.name))

Retained == SelectSeq(payloads, IsRetained)

\* The accumulator exists and the run has not panicked (a panic aborts the
\* run in the middle of an arm).
Assembling == module # <<>> /\ pc # "panic"

Succeeded == pc = "done"

Written == sink[1].bytes

PatternsInvalid == \E i \in 1..Len(opts.delete) : ~Compiles(opts.delete[i])

PatternMode == ~opts.all /\ opts.delete # <<>>

(***************************************************************************)
(* Properties                                                              *)
(***************************************************************************)

\* C1: order preservation.  After every step of the pass, in every policy
\* mode, the section ids of the module assembled so far are the ids of the
\* section records delivered so far with the dropped custom sections removed,
\* in the same order: nothing reordered, merged, split or duplicated.
C1_OrderPreserved ==
    Assembling => Ids(Frames(module)) = Ids(Retained)

C1_Witness ==
    /\ Succeeded
    /\ Len(Retained) >= 2
    /\ \E i \in 1..Len(payloads) :
          IsCustomRecord(payloads[i]) /\ ~IsRetained(payloads[i])
    /\ \E i \in 1..Len(payloads) : payloads[i].kind = "CodeEntry"

\* C2: non-custom sections are preserved verbatim.  Whatever the policy, the
\* non-custom frames of the assembled module are, in order and one for one,
\* the non-custom section records delivered so far, each with the id and the
\* content bytes it has in the input; code entries add nothing.
C2_NonCustomVerbatim ==
    Assembling =>
        IdsAndDatas(SelectSeq(Frames(module), IsOtherFrame))
        = IdsAndContents(SelectSeq(payloads, IsOtherRecord))

C2_Witness ==
    /\ Succeeded
    /\ opts.all
    /\ \A k \in StandardKinds \cup {"Unknown", "CodeEntry", "Custom"} :
          \E i \in 1..Len(payloads) : payloads[i].kind = k

\* C3: default mode keeps the symbol-name section and nothing else custom.
\* With all = false and no pattern, the custom frames written are exactly the
\* input's custom sections named "name", with their name and data bytes, in
\* order; a custom section of any other name is absent.
C3_DefaultKeepsName ==
    (Succeeded /\ DefaultMode) =>
        /\ Datas(SelectSeq(Frames(Written), IsCustomFrame))
           = Contents(SelectSeq(payloads, IsNameRecord))
        /\ \A i \in 1..Len(Frames(Written)) :
              IsCustomFrame(Frames(Written)[i])
                  => FrameName(Frames(Written)[i].data) = NameName

C3_Witness ==
    /\ Succeeded
    /\ DefaultMode
    /\ \E i, j \in 1..Len(payloads) :
          /\ IsCustomRecord(payloads[i]) /\ payloads[i].name = NameName
          /\ IsCustomRecord(payloads[j]) /\ payloads[j].name # NameName

\* C4: strip-all removes every custom section.  With all = true, whatever
\* patterns are configured too, what is written holds no custom frame.
C4_AllStripsEveryCustom ==
    (Succeeded /\ opts.all) =>
        \A i \in 1..Len(Frames(Written)) : ~IsCustomFrame(Frames(Written)[i])

C4_Witness ==
    /\ Succeeded
    /\ opts.all
    /\ opts.delete # <<>>
    /\ \E i \in 1..Len(payloads) :
          /\ IsCustomRecord(payloads[i])
          /\ payloads[i].name = NameName
          /\ ~IsMatch(opts.delete, NameName)
    /\ Len(Frames(Written)) >= 1

\* C5: pattern mode selectivity.  With all = false and a non-empty pattern
\* set, the custom frames written are exactly the input's custom sections
\* whose name matches no pattern, "name" treated like any other name.
C5_PatternSelectivity ==
    (Succeeded /\ PatternMode) =>
        Datas(SelectSeq(Frames(Written), IsCustomFrame))
        = Contents(SelectSeq(payloads, IsUnmatchedRecord))

C5_Witness ==
    /\ Succeeded
    /\ PatternMode
    /\ \E i, j \in 1..Len(payloads) :
          /\ IsCustomRecord(payloads[i]) /\ payloads[i].name = NameName
          /\ IsMatch(opts.delete, payloads[i].name)
          /\ IsCustomRecord(payloads[j]) /\ payloads[j].name # NameName
          /\ ~IsMatch(opts.delete, payloads[j].name)

HasComponentPreamble(bytes) ==
    Len(bytes) >= 8 /\ Slice(bytes, 0, 8) = ComponentHeader

\* C6: the component encoding is rejected at the preamble.  Once the walk of
\* an input with the component preamble has delivered a record, the run has
\* failed with the unsupported-variant error, that record is the preamble, no
\* section was appended and nothing was written; and the unimplemented!
\* arm is reached in no run.
C6_ComponentRejected ==
    /\ err # "unimplemented"
    /\ (HasComponentPreamble(input) /\ (walker # NewParser \/ payloads # <<>>)) =>
          /\ pc = "error"
          /\ err = "component"
          /\ Len(payloads) = 1
          /\ payloads[1].kind = "Version"
          /\ module = ModuleNew
          /\ sink = <<>>

C6_Witness ==
    /\ err = "component"
    /\ Len(input) > 8
    /\ KindOfId("Component", input[9]) = "ComponentModel"

\* C7: all-or-nothing output.  The sink is invoked at most once, and only
\* after the walker delivered every record up to the end marker without
\* error; when the walker reports a parse error, also after sections were
\* appended, the run has failed with it and the sink is not invoked.
C7_AllOrNothing ==
    /\ Len(sink) <= 1
    /\ sink # <<>> =>
          /\ walker.state = "End"
          /\ payloads # <<>>
          /\ payloads[Len(payloads)].kind = "End"
          /\ \A i \in 1..(Len(payloads) - 1) : payloads[i].kind # "End"
    /\ walker.state = "Failed" =>
          /\ pc = "error"
          /\ err = "parse"
          /\ sink = <<>>

C7_Witness ==
    /\ walker.state = "Failed"
    /\ err = "parse"
    /\ Len(Frames(module)) >= 1

\* C8: default mode is idempotent.  Run in default mode on what a default-mode
\* run wrote, the command does not fail on that input, and what it writes is
\* byte for byte what it read.
C8_DefaultIdempotent ==
    run = 2 =>
        /\ pc # "panic"
        /\ err \in {"none", "output"}
        /\ Succeeded => Written = first.output

C8_Witness ==
    /\ run = 2
    /\ Succeeded
    /\ Len(Frames(first.output)) >= 2
    /\ Len(first.output) < Len(first.input)
    /\ \E i \in 1..Len(Frames(first.input)) :
          LET f == Frames(first.input)[i]
          IN  f.id > 0 /\ f.prefix # EncodeU32(Len(f.data))

\* C9 as stated: a pattern that does not compile makes the run fail with the
\* pattern error, and no input acquisition precedes that failure.
C9_Original ==
    /\ (PatternsInvalid /\ pc = "error") => err = "regex"
    /\ err = "regex" => events = <<"regex">>

\* C9 as amended: the input is acquired first.  If that succeeds and a
\* pattern does not compile, the run fails with the pattern error right
\* after the acquisition: before the module is created, before the walker
\* delivers any record, and with nothing written.
C9_PatternErrorBeforeWalk ==
    /\ (PatternsInvalid /\ file.readable /\ pc \notin {"start", "regex"}) =>
          pc = "error" /\ err = "regex"
    /\ err = "regex" =>
          /\ PatternsInvalid
          /\ events = <<"input", "regex">>
          /\ input = file.bytes
          /\ walker = NewParser
          /\ payloads = <<>>
          /\ module = <<>>
          /\ sink = <<>>

C9_Witness ==
    /\ err = "regex"
    /\ pc = "error"
    /\ Len(Frames(input)) >= 1

\* C10: structural validity of the output.  The assembled module is the
\* module preamble followed by one frame per retained section, in order; each
\* frame is the id, a length prefix whose value is the byte length of the
\* content after it, and the section's content as the input has it, without
\* the input's own id and length bytes.
C10_OutputWellFramed ==
    Assembling =>
        LET out == Frames(module)
        IN  /\ Slice(module, 0, 8) = ModuleHeader
            /\ Len(out) = Len(Retained)
            /\ \A i \in 1..Len(out) :
                  /\ out[i].id = Retained[i].id
                  /\ out[i].data = Content(Retained[i])
                  /\ ReadVarU32(out[i].prefix, Len(out[i].prefix), 0).val
                     = Len(Content(Retained[i]))
            /\ module = ModuleHeader \o Flatten(FrameBytes(out))

C10_Witness ==
    /\ Succeeded
    /\ Len(Retained) >= 2
    /\ \E i \in 1..Len(payloads) :
          IsCustomRecord(payloads[i]) /\ ~IsRetained(payloads[i])
    /\ \E i \in 1..Len(Frames(Written)) : Len(Frames(Written)[i].prefix) = 2
    /\ \E i \in 1..Len(Frames(input)) :
          LET f == Frames(input)[i]
          IN  f.id > 0 /\ f.prefix # EncodeU32(Len(f.data))

=============================================================================
